---------------------------- MODULE Spec2Model ----------------------------
(***************************************************************************)
(* Cube state model and rotation engine of the VR Rubik's cube, with the   *)
(* gesture mappers that drive it.                                          *)
(*                                                                         *)
(*   src/lib/rubiks-cube-utils.ts        the engine (rotateFace, ...)      *)
(*   src/components/vr-rubiks-cube.tsx   rotation-snap mapper              *)
(*   src/components/cube/RubiksCube.tsx  controller-drag mapper            *)
(*                                                                         *)
(* Numbers.  Piece coordinates are IEEE-754 doubles.  rotateFace builds    *)
(* its matrix from Math.cos(Math.PI / 2), which is the double              *)
(* 6.123233995736766e-17 (about 0.55 * 2^-53), not 0, and never rounds     *)
(* the rotated position.  A coordinate is therefore kept as a pair         *)
(* <<n, k>>: n is the nearest lattice point and k the drift,               *)
(*     n # 0 :  the double  n * (1 - k * 2^-53)   (k ulps below 1)         *)
(*     n = 0 :  the double  k * cos(pi/2), up to terms below 2^-105.       *)
(* <<n, 0>> is the exact lattice value n.                                  *)
(***************************************************************************)
EXTENDS Integers, Sequences, FiniteSets, TLC

\* ------------------------------------------------------------------------
\* Bounds of the model
\* ------------------------------------------------------------------------
MaxMoves == 3

\* Moves the rotation-snap mapper may emit.
MaxSnapMoves == 2

\* Moves the controller-drag mapper may commit.
MaxCommits == 2

\* Pose callbacks that may be waiting for the next XR frame.
MaxPending == 1

\* ------------------------------------------------------------------------
\* Constants of the program
\* ------------------------------------------------------------------------
CUBE_DIMENSIONS == 3
CUBE_SPACING == 1

COLORS ==
  [white |-> "white", yellow |-> "yellow", red |-> "red", orange |-> "orange",
   blue |-> "blue", green |-> "green", black |-> "black"]

Faces == {"front", "back", "top", "bottom", "right", "left"}

CanonicalColors ==
  {COLORS.white, COLORS.yellow, COLORS.red, COLORS.orange, COLORS.blue, COLORS.green}

Axes == {0, 1, 2}
Layers == {-1, 0, 1}
Directions == {1, -1}

\* ------------------------------------------------------------------------
\* Doubles near the lattice
\* ------------------------------------------------------------------------
Exact(n) == <<n, 0>>

Max(a, b) == IF a >= b THEN a ELSE b

Abs(a) == IF a < 0 THEN -a ELSE a

Sign(a) == IF a > 0 THEN 1 ELSE IF a < 0 THEN -1 ELSE 0

\* The double  cos(pi/2) * p + sg * q  with sg in {1, -1}; the two products
\* and the sum are each rounded to nearest.
\*   q near +-1:  the sum is q moved by about 0.55 ulp towards or away from
\*                zero when p is near +-1: away from zero it rounds back up
\*                (never above magnitude 1), towards zero it loses one ulp;
\*                when p is near 0 the term is far below half an ulp.
\*   q near 0:    the sum stays near 0 and collects one more cos(pi/2) per
\*                unit of p.
MulAdd(p, sg, q) ==
  IF q[1] # 0
    THEN LET n == sg * q[1]
         IN  IF p[1] = 0 THEN <<n, q[2]>>
             ELSE IF p[1] = n THEN <<n, Max(q[2] - 1, 0)>>
             ELSE <<n, q[2] + 1>>
    ELSE <<0, p[1] + sg * q[2]>>

\* The comparison a === b in place of the epsilon test.
WithinEpsilon_strict(a, b) == a = b

\* Math.abs(a - b) < 0.1 for two coordinates: the drift is a few ulps, so
\* the test holds exactly when both are near the same lattice point.
WithinEpsilon(a, b) == a[1] = b[1]

\* Matrix4.makeRotationAxis(e_axis, direction * Math.PI / 2): rows of the
\* upper 3x3 block.  Entries: "0", "1", "-1" and "c" = cos(pi/2);
\* sin(+-pi/2) is exactly +-1 and (1 - c) + c rounds to exactly 1.
Neg(e) == IF e = "1" THEN "-1" ELSE "1"

makeRotationAxis(axis, direction) ==
  LET s == IF direction > 0 THEN "1" ELSE "-1"
  IN  CASE axis = 0 -> << <<"1", "0", "0">>, <<"0", "c", Neg(s)>>, <<"0", s, "c">> >>
        [] axis = 1 -> << <<"c", "0", s>>, <<"0", "1", "0">>, <<Neg(s), "0", "c">> >>
        [] OTHER    -> << <<"c", Neg(s), "0">>, <<s, "c", "0">>, <<"0", "0", "1">> >>

\* One row of Vector3.applyMatrix4: e0*x + e4*y + e8*z (+ 0, times w = 1).
\* Every row of a quarter-turn matrix is either a unit row or has one "c"
\* entry and one +-1 entry.
RowApply(row, v) ==
  LET cs == {i \in 1..3 : row[i] = "c"}
      us == {i \in 1..3 : row[i] \in {"1", "-1"}}
      j  == CHOOSE i \in us : TRUE
  IN  IF cs = {}
        THEN (IF row[j] = "1" THEN v[j] ELSE <<-v[j][1], v[j][2]>>)
        ELSE LET i == CHOOSE i \in cs : TRUE
             IN  MulAdd(v[i], IF row[j] = "1" THEN 1 ELSE -1, v[j])

applyMatrix4(position, m) ==
  <<RowApply(m[1], position), RowApply(m[2], position), RowApply(m[3], position)>>

\* ------------------------------------------------------------------------
\* src/lib/rubiks-cube-utils.ts
\* ------------------------------------------------------------------------
\* Math.abs(a) >= Math.abs(b) for two coordinates: near different lattice
\* magnitudes the lattice decides; near the same nonzero one the smaller
\* drift is the larger double; near 0 the larger multiple of cos(pi/2) is.
AbsGeq(a, b) ==
  IF Abs(a[1]) # Abs(b[1]) THEN Abs(a[1]) > Abs(b[1])
  ELSE IF a[1] # 0 THEN a[2] <= b[2]
  ELSE Abs(a[2]) >= Abs(b[2])

\* a > 0 for a coordinate.
Positive(a) == a[1] > 0 \/ (a[1] = 0 /\ a[2] > 0)

\* detectFace testing the axes in the order z, y, x.
detectFace_zFirst(position) ==
  LET x == position[1]  y == position[2]  z == position[3]
  IN  IF AbsGeq(z, x) /\ AbsGeq(z, y)
        THEN (IF Positive(z) THEN "front" ELSE "back")
      ELSE IF AbsGeq(y, x) /\ AbsGeq(y, z)
        THEN (IF Positive(y) THEN "top" ELSE "bottom")
      ELSE (IF Positive(x) THEN "right" ELSE "left")

detectFace(position) ==
  LET x == position[1]  y == position[2]  z == position[3]
  IN  IF AbsGeq(x, y) /\ AbsGeq(x, z)
        THEN (IF Positive(x) THEN "right" ELSE "left")
      ELSE IF AbsGeq(y, x) /\ AbsGeq(y, z)
        THEN (IF Positive(y) THEN "top" ELSE "bottom")
      ELSE (IF Positive(z) THEN "front" ELSE "back")

\* getFaceAxis numbering the axes from 1.
getFaceAxis_oneBased(face) ==
  CASE face \in {"right", "left"} -> 1
    [] face \in {"top", "bottom"} -> 2
    [] face \in {"front", "back"} -> 0
    [] OTHER -> 0

getFaceAxis(face) ==
  CASE face \in {"right", "left"} -> 0
    [] face \in {"top", "bottom"} -> 1
    [] face \in {"front", "back"} -> 2
    [] OTHER -> 0

getLayerFromPosition(position, axis) == position[axis + 1]

\* rotateColors with the assignments reading newColors instead of the saved
\* `colors` (the copy is overwritten while it is still being read).
rotateColors_inplace(colors, axis, direction) ==
  IF axis = 0 THEN
    IF direction > 0
      THEN [colors EXCEPT !.top = colors.front, !.back = colors.front,
                          !.bottom = colors.front, !.front = colors.front]
      ELSE [colors EXCEPT !.front = colors.top, !.top = colors.back,
                          !.back = colors.bottom, !.bottom = colors.top]
  ELSE IF axis = 1 THEN
    IF direction > 0
      THEN [colors EXCEPT !.front = colors.right, !.right = colors.back,
                          !.back = colors.left, !.left = colors.right]
      ELSE [colors EXCEPT !.right = colors.front, !.back = colors.front,
                          !.left = colors.front, !.front = colors.front]
  ELSE IF axis = 2 THEN
    IF direction > 0
      THEN [colors EXCEPT !.top = colors.left, !.right = colors.left,
                          !.bottom = colors.left, !.left = colors.left]
      ELSE [colors EXCEPT !.left = colors.top, !.top = colors.right,
                          !.right = colors.bottom, !.bottom = colors.top]
  ELSE colors

\* The color block of rotateFace (lines 99-140): newColors for one piece.
rotateColors(colors, axis, direction) ==
  IF axis = 0 THEN
    IF direction > 0
      THEN [colors EXCEPT !.top = colors.front, !.back = colors.top,
                          !.bottom = colors.back, !.front = colors.bottom]
      ELSE [colors EXCEPT !.front = colors.top, !.top = colors.back,
                          !.back = colors.bottom, !.bottom = colors.front]
  ELSE IF axis = 1 THEN
    IF direction > 0
      THEN [colors EXCEPT !.front = colors.right, !.right = colors.back,
                          !.back = colors.left, !.left = colors.front]
      ELSE [colors EXCEPT !.right = colors.front, !.back = colors.right,
                          !.left = colors.back, !.front = colors.left]
  ELSE IF axis = 2 THEN
    IF direction > 0
      THEN [colors EXCEPT !.top = colors.left, !.right = colors.top,
                          !.bottom = colors.right, !.left = colors.bottom]
      ELSE [colors EXCEPT !.left = colors.top, !.top = colors.right,
                          !.right = colors.bottom, !.bottom = colors.left]
  ELSE colors

\* The body of the forEach of rotateFace (lines 88-141) for one piece.
rotatePiece(piece, axis, direction) ==
  [position |-> applyMatrix4(piece.position, makeRotationAxis(axis, direction)),
   colors   |-> rotateColors(piece.colors, axis, direction)]

\* The filter with a strict comparison (position[axis] === layer) in place
\* of the epsilon test.
piecesToRotate_strict(h, state, axis, layer) ==
  {i \in 1..Len(state) : h[state[i]].position[axis + 1] = layer}

\* newState.filter(...) of rotateFace (line 86): the selected array slots.
\* h is the object store, state an array of references into it, layer a
\* coordinate.
piecesToRotate(h, state, axis, layer) ==
  {i \in 1..Len(state) : WithinEpsilon(h[state[i]].position[axis + 1], layer)}

\* rotateFace with the forEach running over newState instead of
\* piecesToRotate.
rotateFace_all(h, state, axis, layer, direction) ==
  [heap     |-> [r \in DOMAIN h |-> rotatePiece(h[r], axis, direction)],
   newState |-> state]

\* rotateFace: the returned array is a shallow copy ([...cubeState]), so it
\* holds the same piece objects, and the forEach assigns piece.position and
\* piece.colors on those objects.  Result: the object store after the call
\* and the returned array.
rotateFace(h, state, axis, layer, direction) ==
  LET sel == {state[i] : i \in piecesToRotate(h, state, axis, layer)}
  IN  [heap     |-> [r \in DOMAIN h |->
                       IF r \in sel THEN rotatePiece(h[r], axis, direction) ELSE h[r]],
       newState |-> state]

\* The loop nest of initializeCubeState, in iteration order.
LoopOrder ==
  [i \in 1..(CUBE_DIMENSIONS * CUBE_DIMENSIONS * CUBE_DIMENSIONS) |->
     <<(i - 1) \div (CUBE_DIMENSIONS * CUBE_DIMENSIONS),
       ((i - 1) \div CUBE_DIMENSIONS) % CUBE_DIMENSIONS,
       (i - 1) % CUBE_DIMENSIONS>>]

\* The skip test skipping nothing.
IsInternal_never(t) == FALSE

IsInternal(t) ==
  /\ t[1] # 0 /\ t[1] # CUBE_DIMENSIONS - 1
  /\ t[2] # 0 /\ t[2] # CUBE_DIMENSIONS - 1
  /\ t[3] # 0 /\ t[3] # CUBE_DIMENSIONS - 1

Visited == SelectSeq(LoopOrder, LAMBDA t : ~IsInternal(t))

initializeCubeState ==
  LET offset == (CUBE_DIMENSIONS - 1) \div 2
      mk(t) ==
        LET x == t[1]  y == t[2]  z == t[3]
        IN  [position |-> <<Exact((x - offset) * CUBE_SPACING),
                            Exact((y - offset) * CUBE_SPACING),
                            Exact((z - offset) * CUBE_SPACING)>>,
             colors |->
               [right  |-> IF x = CUBE_DIMENSIONS - 1 THEN COLORS.red ELSE COLORS.black,
                left   |-> IF x = 0 THEN COLORS.orange ELSE COLORS.black,
                top    |-> IF y = CUBE_DIMENSIONS - 1 THEN COLORS.white ELSE COLORS.black,
                bottom |-> IF y = 0 THEN COLORS.yellow ELSE COLORS.black,
                front  |-> IF z = CUBE_DIMENSIONS - 1 THEN COLORS.blue ELSE COLORS.black,
                back   |-> IF z = 0 THEN COLORS.green ELSE COLORS.black]]
  IN  [i \in 1..Len(Visited) |-> mk(Visited[i])]

\* ------------------------------------------------------------------------
\* State
\* ------------------------------------------------------------------------
VARIABLES
  heap,        \* piece objects: reference -> [position, colors]
  cubeState,   \* the array the orchestrator holds: sequence of references
  nMoves,      \* number of rotateFace calls made so far
  prevState,   \* the array the caller passed to the last call
  prevView,    \* what prevState showed just before that call
  lastMove,    \* the Move of the last call, or NoMove
  thrown,      \* error signalled by the last call, "none" if it returned
  grabbedFace, \* the GestureSelection: Null or <<[piece, face]>>
  lastGrab,    \* the GestureSelection the last Move was derived from
  isGrabbing,              \* controller-drag mapper: useState flags
  lastControllerPosition,  \*   Null or a grip position <<x, y, z>>
  rotationInProgress,      \*   the Rotating gate
  rafQueue,    \* pose callbacks requested by handleSelect, not yet run
  timers,      \* pending setTimeout callbacks of commits
  grabMoves,   \* Moves committed since the last pick, release or cancel input
  selectedFace,  \* click-select component: Null or <<[piece, face]>>
  rotatingFace   \*   Null or a turn being animated

vars == <<heap, cubeState, nMoves, prevState, prevView, lastMove, thrown,
          grabbedFace, lastGrab, isGrabbing, lastControllerPosition,
          rotationInProgress, rafQueue, timers, grabMoves, selectedFace,
          rotatingFace>>

Null == <<>>

\* Variables of the gesture mappers, unused by the engine alone.
dragVars == <<isGrabbing, lastControllerPosition, rotationInProgress, rafQueue, timers,
              grabMoves, selectedFace, rotatingFace>>

mapperVars == <<grabbedFace, lastGrab, dragVars>>

InitDragVars ==
  /\ isGrabbing = FALSE
  /\ lastControllerPosition = Null
  /\ rotationInProgress = FALSE
  /\ rafQueue = <<>>
  /\ timers = 0
  /\ grabMoves = 0
  /\ selectedFace = Null
  /\ rotatingFace = Null

NoMove == [axis |-> -1, layer |-> Exact(0), direction |-> 0]

\* The pieces an array shows to whoever holds it.
Deref(h, state) == [i \in 1..Len(state) |-> h[state[i]]]

View == Deref(heap, cubeState)

\* ------------------------------------------------------------------------
\* Engine alone: any sequence of rotateFace calls from the solved cube
\* ------------------------------------------------------------------------
InitEngine ==
  /\ heap = initializeCubeState
  /\ cubeState = [i \in 1..Len(initializeCubeState) |-> i]
  /\ nMoves = 0
  /\ prevState = <<>>
  /\ prevView = <<>>
  /\ lastMove = NoMove
  /\ thrown = "none"
  /\ grabbedFace = Null
  /\ lastGrab = Null
  /\ InitDragVars

\* A caller holding the array `cubeState` runs
\*   cubeState = rotateFace(cubeState, axis, layer, direction)
\* and keeps its reference to the array it passed.  rotateFace has no throw
\* statement: it always returns.
Turn(axis, layer, direction) ==
  /\ nMoves < MaxMoves
  /\ LET r == rotateFace(heap, cubeState, axis, Exact(layer), direction)
     IN  /\ heap' = r.heap
         /\ cubeState' = r.newState
  /\ nMoves' = nMoves + 1
  /\ prevState' = cubeState
  /\ prevView' = View
  /\ lastMove' = [axis |-> axis, layer |-> Exact(layer), direction |-> direction]
  /\ thrown' = "none"
  /\ UNCHANGED mapperVars

NextEngine ==
  \E axis \in Axes, layer \in Layers, direction \in Directions :
    Turn(axis, layer, direction)

Spec == InitEngine /\ [][NextEngine]_vars

\* ------------------------------------------------------------------------
\* src/components/vr-rubiks-cube.tsx: the rotation-snap mapper (RubiksCube)
\*
\* The file carries its own detectFace, getFaceAxis, getLayerFromPosition
\* and rotateFace (lines 294-401), word for word those of
\* rubiks-cube-utils.ts; its initializeCubeState differs in leaving the
\* interior faces without a color.
\* ------------------------------------------------------------------------
initializeCubeState_vr ==
  LET offset == (CUBE_DIMENSIONS - 1) \div 2
      mk(t) ==
        LET x == t[1]  y == t[2]  z == t[3]
        IN  [position |-> <<Exact((x - offset) * CUBE_SPACING),
                            Exact((y - offset) * CUBE_SPACING),
                            Exact((z - offset) * CUBE_SPACING)>>,
             colors |->
               [front  |-> IF z = CUBE_DIMENSIONS - 1 THEN COLORS.blue ELSE "undefined",
                back   |-> IF z = 0 THEN COLORS.green ELSE "undefined",
                top    |-> IF y = CUBE_DIMENSIONS - 1 THEN COLORS.white ELSE "undefined",
                bottom |-> IF y = 0 THEN COLORS.yellow ELSE "undefined",
                right  |-> IF x = CUBE_DIMENSIONS - 1 THEN COLORS.red ELSE "undefined",
                left   |-> IF x = 0 THEN COLORS.orange ELSE "undefined"]]
  IN  [i \in 1..Len(Visited) |-> mk(Visited[i])]

\* Quaternion.angleTo(rotationStart) lies in [0, pi]; the controller pose is
\* an input of the host, taken here in steps of pi/4.
AngleSteps == 0..4

\* Math.round(rotationDiff / (Math.PI / 2)) for rotationDiff = a * pi/4;
\* Math.round rounds halves up.  snapAngle is this many quarter turns.
snapAngle(a) == (a + 1) \div 2

\* releaseMove turning against the snapped angle.
releaseMove_reversed(grabbed, snap) ==
  LET axis == getFaceAxis(grabbed.face)
  IN  [axis      |-> axis,
       layer     |-> getLayerFromPosition(grabbed.piece.position, axis),
       direction |-> -Sign(snap)]

\* The Move handleRelease derives from the selection (lines 119-122).
releaseMove(grabbed, snap) ==
  LET axis == getFaceAxis(grabbed.face)
  IN  [axis      |-> axis,
       layer     |-> getLayerFromPosition(grabbed.piece.position, axis),
       direction |-> Sign(snap)]

InitSnap ==
  /\ heap = initializeCubeState_vr
  /\ cubeState = [i \in 1..Len(initializeCubeState_vr) |-> i]
  /\ nMoves = 0
  /\ prevState = <<>>
  /\ prevView = <<>>
  /\ lastMove = NoMove
  /\ thrown = "none"
  /\ grabbedFace = Null
  /\ lastGrab = Null
  /\ InitDragVars

\* handleGrab without the early return on an existing selection.
handleGrab_overwrite(i) ==
  /\ grabbedFace' = <<[piece |-> View[i], face |-> detectFace(View[i].position)]>>
  /\ UNCHANGED <<heap, cubeState, nMoves, prevState, prevView, lastMove,
                 thrown, lastGrab, dragVars>>

\* Interactive onSelect of the piece rendered from array slot i:
\* onGrab({position, colors}, detectFace(position)).
handleGrab(i) ==
  IF grabbedFace # Null
    THEN UNCHANGED vars
    ELSE /\ grabbedFace' = <<[piece |-> View[i], face |-> detectFace(View[i].position)]>>
         /\ UNCHANGED <<heap, cubeState, nMoves, prevState, prevView, lastMove,
                        thrown, lastGrab, dragVars>>

\* Interactive onSelectEnd, with the controller a * pi/4 away from
\* rotationStart.  Math.abs(snapAngle) > 0.1 holds from one quarter turn on.
handleRelease(a) ==
  /\ nMoves < MaxSnapMoves
  /\ IF grabbedFace = Null
       THEN UNCHANGED vars
       ELSE /\ IF snapAngle(a) >= 1
                 THEN LET move == releaseMove(grabbedFace[1], snapAngle(a))
                          r == rotateFace(heap, cubeState, move.axis, move.layer,
                                          move.direction)
                      IN  /\ heap' = r.heap
                          /\ cubeState' = r.newState
                          /\ nMoves' = nMoves + 1
                          /\ prevState' = cubeState
                          /\ prevView' = View
                          /\ lastMove' = move
                          /\ lastGrab' = grabbedFace
                          /\ thrown' = "none"
                 ELSE UNCHANGED <<heap, cubeState, nMoves, prevState, prevView,
                                  lastMove, lastGrab, thrown>>
            /\ grabbedFace' = Null
            /\ UNCHANGED dragVars

NextSnap ==
  \/ \E i \in 1..Len(cubeState) : handleGrab(i)
  \/ \E a \in AngleSteps : handleRelease(a)

SpecSnap == InitSnap /\ [][NextSnap]_vars

\* handleGrab(piece, face: string) as its signature admits it: called with
\* the piece of array slot i and any label, one of the six or another
\* string.  handleRelease then resolves the recorded label with getFaceAxis.
FaceLabels == Faces \cup {"center"}

\* Array slots whose piece such a caller passes: a corner, an edge and a
\* face center.
ResolverSlots == {1, 2, 5}

onGrab(i, face) ==
  IF grabbedFace # Null
    THEN UNCHANGED vars
    ELSE /\ grabbedFace' = <<[piece |-> View[i], face |-> face]>>
         /\ UNCHANGED <<heap, cubeState, nMoves, prevState, prevView, lastMove,
                        thrown, lastGrab, dragVars>>

NextResolver ==
  \/ \E i \in ResolverSlots, face \in FaceLabels : onGrab(i, face)
  \/ \E a \in AngleSteps : handleRelease(a)

SpecResolver == InitSnap /\ [][NextResolver]_vars

\* ------------------------------------------------------------------------
\* src/components/cube/RubiksCube.tsx: the controller-drag mapper
\* (RubiksCubeModel)
\*
\* Handlers run one at a time on the state of the latest render.  The XR
\* session and its grip space are taken to exist; whether a frame delivers a
\* pose is an input of each callback.  Grip positions are in units of 0.02,
\* so a lattice step of the cube is 50 units and the threshold 0.1 is 5.
\* Axis 'x' | 'y' | 'z' is written 0 | 1 | 2.
\* ------------------------------------------------------------------------
threshold == 5

ToGrid(n) == 50 * n

\* Grip positions the host reports.
GripPositions ==
  {<<0, 0, 0>>, <<4, 0, 0>>, <<0, 10, 0>>}

\* Array slots whose piece the user clicks: the slots that initially hold
\* (0,0,0), (1,0,0) and (1,1,1).
ClickSlots == {14, 23, 27}

\* The useEffect initializer: all 27 lattice points, x outermost.
initialState ==
  [i \in 1..27 |->
     LET x == ((i - 1) \div 9) - 1
         y == (((i - 1) \div 3) % 3) - 1
         z == ((i - 1) % 3) - 1
     IN  [position |-> <<Exact(x), Exact(y), Exact(z)>>,
          colors |->
            [right  |-> IF x = 1 THEN "red" ELSE "undefined",
             left   |-> IF x = -1 THEN "orange" ELSE "undefined",
             top    |-> IF y = 1 THEN "white" ELSE "undefined",
             bottom |-> IF y = -1 THEN "yellow" ELSE "undefined",
             front  |-> IF z = 1 THEN "blue" ELSE "undefined",
             back   |-> IF z = -1 THEN "green" ELSE "undefined"]]]

\* faces.reduce(...) of handleSelect: the first face of the list front,
\* back, right, left, top, bottom whose |normal . direction| is largest;
\* direction is grip - piecePosition, normalized (the order of the three
\* magnitudes is that of the unnormalized vector).
closestFace(position, grip) ==
  LET dx == Abs(grip[1] - ToGrid(position[1][1]))
      dy == Abs(grip[2] - ToGrid(position[2][1]))
      dz == Abs(grip[3] - ToGrid(position[3][1]))
      afterRight == IF dx > dz THEN <<"right", dx>> ELSE <<"front", dz>>
  IN  IF dy > afterRight[2] THEN "top" ELSE afterRight[1]

\* getLegalMove: Null or <<[axis, direction, layer]>>.
getLegalMove(controllerPosition, lastPosition) ==
  IF grabbedFace = Null THEN Null
  ELSE
    LET mx == controllerPosition[1] - lastPosition[1]
        my == controllerPosition[2] - lastPosition[2]
        mz == controllerPosition[3] - lastPosition[3]
        piece == grabbedFace[1].piece
        face == grabbedFace[1].face
        maxMovement == Max(Abs(mx), Max(Abs(my), Abs(mz)))
    IN  IF maxMovement < threshold THEN Null
        ELSE IF face \in {"front", "back"}
          THEN <<[axis |-> 2, direction |-> IF mx > 0 THEN 1 ELSE -1,
                  layer |-> piece.position[3]]>>
        ELSE IF face \in {"right", "left"}
          THEN <<[axis |-> 0, direction |-> IF my > 0 THEN 1 ELSE -1,
                  layer |-> piece.position[1]]>>
        ELSE <<[axis |-> 1, direction |-> IF mx > 0 THEN 1 ELSE -1,
                layer |-> piece.position[2]]>>

\* cubeState.filter(...) of the frame callback (lines 152-157): strict ===.
framePiecesToRotate(state, axis, layer) ==
  SelectSeq(state, LAMBDA piece : piece.position[axis + 1] = layer)

\* The replacement record of one layer piece (lines 169-196).  The color
\* shuffle does not look at direction.
commitPiece(piece, axis, direction) ==
  LET x == piece.position[1][1]
      y == piece.position[2][1]
      z == piece.position[3][1]
      c == piece.colors
  IN  IF axis = 1 THEN
        [position |-> <<Exact(z * direction), Exact(y), Exact((-x) * direction)>>,
         colors |-> [c EXCEPT !.front = c.right, !.right = c.back,
                              !.back = c.left, !.left = c.front]]
      ELSE IF axis = 0 THEN
        [position |-> <<Exact(x), Exact((-z) * direction), Exact(y * direction)>>,
         colors |-> [c EXCEPT !.front = c.bottom, !.bottom = c.back,
                              !.back = c.top, !.top = c.front]]
      ELSE
        [position |-> <<Exact((-y) * direction), Exact(x * direction), Exact(z)>>,
         colors |-> [c EXCEPT !.right = c.top, !.top = c.left,
                              !.left = c.bottom, !.bottom = c.right]]

\* newState.findIndex(p => p.position equals position), 0 when there is none.
findIndex(newState, position) ==
  LET hits == {i \in 1..Len(newState) : newState[i].position = position}
  IN  IF hits = {} THEN 0 ELSE CHOOSE i \in hits : \A j \in hits : i <= j

\* piecesToRotate.forEach(...) of the frame callback (lines 162-198), from
\* the k-th piece on: each piece is looked up by its position in the array
\* being rewritten, and the slot found is overwritten.
RECURSIVE commitLoop(_, _, _, _, _)
commitLoop(newState, pieces, k, axis, direction) ==
  IF k > Len(pieces) THEN newState
  ELSE
    LET index == findIndex(newState, pieces[k].position)
        next == IF index # 0
                  THEN [newState EXCEPT ![index] = commitPiece(pieces[k], axis, direction)]
                  ELSE newState
    IN  commitLoop(next, pieces, k + 1, axis, direction)

InitDrag ==
  /\ heap = initialState
  /\ cubeState = [i \in 1..Len(initialState) |-> i]
  /\ nMoves = 0
  /\ prevState = <<>>
  /\ prevView = <<>>
  /\ lastMove = NoMove
  /\ thrown = "none"
  /\ grabbedFace = Null
  /\ lastGrab = Null
  /\ InitDragVars

cubeVars == <<heap, cubeState, nMoves, prevState, prevView, lastMove, thrown, lastGrab,
              selectedFace, rotatingFace>>

\* useXRControllerButtonEvent handler (lines 46-54).
TriggerEvent(state) ==
  /\ IF state = "default"
       THEN /\ isGrabbing' = TRUE
            /\ grabMoves' = 0
            /\ UNCHANGED <<grabbedFace, lastControllerPosition>>
     ELSE IF state = "touched"
       THEN /\ isGrabbing' = FALSE
            /\ grabbedFace' = Null
            /\ lastControllerPosition' = Null
            /\ grabMoves' = 0
     ELSE UNCHANGED <<isGrabbing, grabbedFace, lastControllerPosition, grabMoves>>
  /\ UNCHANGED <<cubeVars, rotationInProgress, rafQueue, timers>>

\* handleSelect(piece) up to the requestAnimationFrame call: the value is
\* the callback queue after it.
handleSelect(piece) ==
  IF rotationInProgress THEN rafQueue ELSE Append(rafQueue, piece)

\* onClick of the piece rendered from array slot i (lines 215-218).
Click(i) ==
  /\ rotationInProgress \/ Len(rafQueue) < MaxPending
  /\ isGrabbing' = TRUE
  /\ rafQueue' = handleSelect(View[i])
  /\ grabMoves' = 0
  /\ UNCHANGED <<cubeVars, grabbedFace, lastControllerPosition,
                 rotationInProgress, timers>>

\* The callback handleSelect passed to requestAnimationFrame (lines 63-92),
\* run for the oldest request, with the grip at `grip` when the frame has a
\* pose.
PoseCallback(grip, hasPose) ==
  /\ rafQueue # <<>>
  /\ rafQueue' = Tail(rafQueue)
  /\ IF hasPose
       THEN /\ lastControllerPosition' = grip
            /\ grabbedFace' = <<[piece |-> Head(rafQueue),
                                 face |-> closestFace(Head(rafQueue).position, grip)]>>
            /\ isGrabbing' = TRUE
            /\ grabMoves' = 0
       ELSE UNCHANGED <<lastControllerPosition, grabbedFace, isGrabbing, grabMoves>>
  /\ UNCHANGED <<cubeVars, rotationInProgress, timers>>

\* onPointerUp without setGrabbedFace(null).
PointerUp_keepsSelection ==
  /\ isGrabbing' = FALSE
  /\ lastControllerPosition' = Null
  /\ grabMoves' = 0
  /\ UNCHANGED <<cubeVars, grabbedFace, rotationInProgress, rafQueue, timers>>

\* onPointerUp (lines 219-223).
PointerUp ==
  /\ isGrabbing' = FALSE
  /\ grabbedFace' = Null
  /\ lastControllerPosition' = Null
  /\ grabMoves' = 0
  /\ UNCHANGED <<cubeVars, rotationInProgress, rafQueue, timers>>

\* The useFrame callback without rotationInProgress in its early return.
Frame_ungated(grip, hasPose) ==
  /\ nMoves < MaxCommits
  /\ IF \/ ~isGrabbing \/ grabbedFace = Null \/ lastControllerPosition = Null
        \/ ~hasPose
       THEN UNCHANGED vars
       ELSE
         LET move == getLegalMove(grip, lastControllerPosition)
             pieces == IF move = Null THEN <<>>
                       ELSE framePiecesToRotate(View, move[1].axis, move[1].layer)
         IN  IF move # Null /\ Len(pieces) = 9
               THEN /\ rotationInProgress' = TRUE
                    /\ heap' = commitLoop(View, pieces, 1, move[1].axis, move[1].direction)
                    /\ lastControllerPosition' = grip
                    /\ timers' = timers + 1
                    /\ nMoves' = nMoves + 1
                    /\ grabMoves' = grabMoves + 1
                    /\ lastMove' = [axis |-> move[1].axis, layer |-> move[1].layer,
                                    direction |-> move[1].direction]
                    /\ UNCHANGED <<cubeState, prevState, prevView, thrown, lastGrab,
                                   grabbedFace, isGrabbing, rafQueue, selectedFace,
                                   rotatingFace>>
               ELSE UNCHANGED vars

\* The useFrame callback (lines 140-205) on a frame whose pose, if any, puts
\* the grip at `grip`.
Frame(grip, hasPose) ==
  /\ nMoves < MaxCommits
  /\ IF \/ ~isGrabbing \/ grabbedFace = Null \/ lastControllerPosition = Null
        \/ rotationInProgress \/ ~hasPose
       THEN UNCHANGED vars
       ELSE
         LET move == getLegalMove(grip, lastControllerPosition)
             pieces == IF move = Null THEN <<>>
                       ELSE framePiecesToRotate(View, move[1].axis, move[1].layer)
         IN  IF move # Null /\ Len(pieces) = 9
               THEN /\ rotationInProgress' = TRUE
                    /\ heap' = commitLoop(View, pieces, 1, move[1].axis, move[1].direction)
                    /\ lastControllerPosition' = grip
                    /\ timers' = timers + 1
                    /\ nMoves' = nMoves + 1
                    /\ grabMoves' = grabMoves + 1
                    /\ lastMove' = [axis |-> move[1].axis, layer |-> move[1].layer,
                                    direction |-> move[1].direction]
                    /\ UNCHANGED <<cubeState, prevState, prevView, thrown, lastGrab,
                                   grabbedFace, isGrabbing, rafQueue, selectedFace,
                                   rotatingFace>>
               ELSE UNCHANGED vars

\* A timer callback that leaves rotationInProgress as it is.
TimerFire_noRelease ==
  /\ timers > 0
  /\ timers' = timers - 1
  /\ UNCHANGED <<cubeVars, grabbedFace, isGrabbing, lastControllerPosition, rafQueue,
                 grabMoves, rotationInProgress>>

\* The callback of setTimeout(..., 300) (line 201).
TimerFire ==
  /\ timers > 0
  /\ timers' = timers - 1
  /\ rotationInProgress' = FALSE
  /\ UNCHANGED <<cubeVars, grabbedFace, isGrabbing, lastControllerPosition, rafQueue,
                 grabMoves>>

NextDrag ==
  \/ \E i \in ClickSlots : Click(i)
  \/ PointerUp
  \/ \E state \in {"default", "touched", "pressed"} : TriggerEvent(state)
  \/ \E grip \in GripPositions, hasPose \in BOOLEAN : PoseCallback(grip, hasPose)
  \/ \E grip \in GripPositions, hasPose \in BOOLEAN : Frame(grip, hasPose)
  \/ TimerFire

SpecDrag == InitDrag /\ [][NextDrag]_vars

\* The same mapper on a host whose timers fire: a callback passed to
\* setTimeout is eventually run.
SpecDragFair == SpecDrag /\ WF_vars(TimerFire)

\* ------------------------------------------------------------------------
\* src/components/rubiks-cube.tsx: the click-select component (CubeModel)
\*
\* Its initializeCubeState, detectFace, getFaceAxis, getLayerFromPosition
\* and rotateFace (lines 201-337) are those of rubiks-cube-utils.ts.  The
\* three handlers are passed to every CubePiece; CubePiece binds onGrab to
\* the Interactive onSelect event, builds handleClick around onSelect and
\* receives onRelease.  Each handler is taken to be callable for any piece.
\* ------------------------------------------------------------------------
InitSelect ==
  /\ heap = initializeCubeState
  /\ cubeState = [i \in 1..Len(initializeCubeState) |-> i]
  /\ nMoves = 0
  /\ prevState = <<>>
  /\ prevView = <<>>
  /\ lastMove = NoMove
  /\ thrown = "none"
  /\ grabbedFace = Null
  /\ lastGrab = Null
  /\ InitDragVars

selectFrame == <<heap, cubeState, nMoves, prevState, prevView, lastMove, thrown, lastGrab,
                 isGrabbing, lastControllerPosition, rotationInProgress, rafQueue,
                 timers, grabMoves>>

\* handleSelect(piece, face) (lines 94-97), called by handleClick of the
\* piece rendered from array slot i.
CubeModel_handleSelect(i) ==
  /\ IF rotatingFace # Null
       THEN UNCHANGED selectedFace
       ELSE selectedFace' = <<[piece |-> View[i], face |-> detectFace(View[i].position)]>>
  /\ UNCHANGED <<selectFrame, grabbedFace, rotatingFace>>

\* handleGrab(piece, face) (lines 99-101), called by Interactive onSelect of
\* the piece rendered from array slot i.
CubeModel_handleGrab(i) ==
  /\ grabbedFace' = <<[piece |-> View[i], face |-> detectFace(View[i].position)]>>
  /\ UNCHANGED <<selectFrame, selectedFace, rotatingFace>>

\* handleRelease that also clears the selected face.
CubeModel_handleRelease_clearsAll ==
  /\ grabbedFace' = Null
  /\ selectedFace' = Null
  /\ UNCHANGED <<selectFrame, rotatingFace>>

\* handleRelease() (lines 103-105).
CubeModel_handleRelease ==
  /\ grabbedFace' = Null
  /\ UNCHANGED <<selectFrame, selectedFace, rotatingFace>>

NextSelect ==
  \/ \E i \in 1..Len(cubeState) : CubeModel_handleSelect(i)
  \/ \E i \in 1..Len(cubeState) : CubeModel_handleGrab(i)
  \/ CubeModel_handleRelease

SpecSelect == InitSelect /\ [][NextSelect]_vars

\* ------------------------------------------------------------------------
\* Either gesture mapper: the component mounted is the rotation-snap
\* RubiksCube (26 pieces) or the controller-drag RubiksCube (27 pieces), and
\* only the handlers of the mounted component run.
\* ------------------------------------------------------------------------
InitMappers == InitSnap \/ InitDrag

NextMappers ==
  \/ Len(cubeState) = Len(initializeCubeState_vr) /\ NextSnap
  \/ Len(cubeState) = Len(initialState) /\ NextDrag

SpecMappers == InitMappers /\ [][NextMappers]_vars

\* ------------------------------------------------------------------------
\* Helpers of the properties
\* ------------------------------------------------------------------------
\* Number of stickers of color c that an array of pieces shows.
Stickers(view, c) ==
  LET onPiece(i) == Cardinality({f \in Faces : view[i].colors[f] = c})
      sum[i \in 0..Len(view)] == IF i = 0 THEN 0 ELSE sum[i - 1] + onPiece(i)
  IN  sum[Len(view)]

\* The lattice cell of a position: the nearest lattice point of each
\* coordinate.  Positions in different cells differ; positions in one cell
\* are within the selection epsilon of each other on every axis.
Cell(p) == <<p[1][1], p[2][1], p[3][1]>>

\* The axis and the side of the cube a face label names.
FaceAxisOf(f) ==
  CASE f \in {"right", "left"} -> 0 [] f \in {"top", "bottom"} -> 1 [] OTHER -> 2

FaceSignOf(f) == IF f \in {"right", "top", "front"} THEN 1 ELSE -1

\* The pieces of the array passed to the last call that its Move selected.
LastSelected ==
  {i \in 1..Len(prevView) :
     WithinEpsilon(prevView[i].position[lastMove.axis + 1], lastMove.layer)}

\* The solved cube with a given filler: one piece for each lattice point of
\* {0,1,2}^3 other than (1,1,1), at the centered position, each face colored
\* exactly when it lies on the outer boundary.
IsSolvedCube(pieces, filler) ==
  LET Points == {t \in {0, 1, 2} \X {0, 1, 2} \X {0, 1, 2} : t # <<1, 1, 1>>}
      at(t) == {i \in 1..Len(pieces) :
                  pieces[i].position = <<Exact(t[1] - 1), Exact(t[2] - 1), Exact(t[3] - 1)>>}
  IN  /\ Len(pieces) = Cardinality(Points)
      /\ \A t \in Points :
           /\ Cardinality(at(t)) = 1
           /\ \A i \in at(t) :
                pieces[i].colors =
                  [right  |-> IF t[1] = 2 THEN "red" ELSE filler,
                   left   |-> IF t[1] = 0 THEN "orange" ELSE filler,
                   top    |-> IF t[2] = 2 THEN "white" ELSE filler,
                   bottom |-> IF t[2] = 0 THEN "yellow" ELSE filler,
                   front  |-> IF t[3] = 2 THEN "blue" ELSE filler,
                   back   |-> IF t[3] = 0 THEN "green" ELSE filler]

\* The color cycle of a positive turn about each axis, as a list of faces:
\* the color on each face moves to the next face of the list, the last to
\* the first.
CycleOfAxis(axis) ==
  CASE axis = 0 -> <<"front", "top", "back", "bottom">>
    [] axis = 1 -> <<"front", "right", "back", "left">>
    [] OTHER    -> <<"top", "right", "bottom", "left">>

\* The colors of a piece after its colors moved one step along the cycle of
\* the axis (direction +1) or one step against it (direction -1); faces off
\* the cycle keep their colors.
CycledColors(colors, axis, direction) ==
  LET cyc == CycleOfAxis(axis)
      idx(f) == CHOOSE k \in 1..4 : cyc[k] = f
      from(f) == IF direction > 0 THEN cyc[((idx(f) + 2) % 4) + 1]
                                  ELSE cyc[(idx(f) % 4) + 1]
  IN  [f \in Faces |->
         IF \E k \in 1..4 : cyc[k] = f THEN colors[from(f)] ELSE colors[f]]

\* The positions of {-1,0,1}^3 other than (0,0,0), as exact coordinates.
LatticePositions ==
  {<<Exact(t[1]), Exact(t[2]), Exact(t[3])>> :
     t \in {t \in Layers \X Layers \X Layers : t # <<0, 0, 0>>}}

\* The axis with the largest absolute coordinate of a lattice point, the
\* first such axis in the order X, Y, Z.
DominantAxis(t) ==
  CHOOSE a \in Axes :
    /\ \A b \in Axes : Abs(t[a + 1]) >= Abs(t[b + 1])
    /\ \A b \in Axes : b < a => Abs(t[b + 1]) < Abs(t[a + 1])

\* The face label on the given side of the given axis.
FaceOf(axis, sign) ==
  CHOOSE f \in Faces : FaceAxisOf(f) = axis /\ FaceSignOf(f) = sign

DominantFace(position) ==
  LET t == Cell(position)
      a == DominantAxis(t)
  IN  FaceOf(a, Sign(t[a + 1]))

\* Number of pieces of the current CubeState on a layer: those the filter of
\* rotateFace selects for it.
LayerSize(axis, layer) ==
  Cardinality(piecesToRotate(heap, cubeState, axis, Exact(layer)))

\* The two initializers return the solved cube.
SolvedEngine == IsSolvedCube(initializeCubeState, COLORS.black)

SolvedSnap == IsSolvedCube(initializeCubeState_vr, "undefined")

\* The Move a pick of a piece at `position` resolves to, before a direction
\* is known: the axis of the detected face and the piece's coordinate on it.
PickAxis(position) == getFaceAxis(detectFace(position))

PickLayer(position) == getLayerFromPosition(position, PickAxis(position))

\* Every pick in the CubeState (h, state) resolves to a layer that is
\* exactly -1 or +1 and holds exactly 9 pieces.
PicksOuterLayer(h, state) ==
  \A i \in 1..Len(state) :
    LET position == h[state[i]].position
    IN  /\ PickLayer(position) \in {Exact(-1), Exact(1)}
        /\ Cardinality(piecesToRotate(h, state, PickAxis(position),
                                      PickLayer(position))) = 9

\* The CubeState after the piece of slot i is picked and released a quarter
\* turn away: the snap mapper's Move for that pick, applied.
PickTurn(h, state, i) ==
  LET position == h[state[i]].position
  IN  rotateFace(h, state, PickAxis(position), PickLayer(position), 1)

\* What an array shows after one more call of rotateFace on it.
After(h, state, axis, layer, direction) ==
  rotateFace(h, state, axis, Exact(layer), direction)

\* ------------------------------------------------------------------------
\* Properties
\* ------------------------------------------------------------------------

\* C1: color conservation.  In every state reached from the solved cube by
\* rotateFace calls, each of the 6 canonical colors is on exactly 9 stickers.
C1_ColorConservation ==
  \A c \in CanonicalColors : Stickers(View, c) = 9

\* C1 witness: two turns have been applied and some piece's colors moved.
C1_Witness ==
  /\ nMoves >= 2
  /\ \E i \in 1..Len(View) : View[i].colors # initializeCubeState[i].colors

\* C2: cardinality.  Every reachable state has exactly 26 pieces and no two
\* of them are at the same position (not even in the same lattice cell).
C2_Cardinality ==
  /\ Len(View) = 26
  /\ Cardinality({Cell(View[i].position) : i \in 1..Len(View)}) = Len(View)

\* C2 witness: two turns about different axes have moved pieces.
C2_Witness ==
  /\ nMoves >= 2
  /\ lastMove.axis = 1
  /\ \E i \in 1..Len(View) : View[i].position[1] # initializeCubeState[i].position[1]

\* C3: geometric/chromatic consistency.  For every piece and face label f,
\* the f-face carries a canonical color iff the piece lies on f's side of
\* the cube (its coordinate on f's axis is at f's sign).
C3_Consistency ==
  \A i \in 1..Len(View) : \A f \in Faces :
    (View[i].colors[f] \in CanonicalColors)
      <=> (View[i].position[FaceAxisOf(f) + 1][1] = FaceSignOf(f))

\* C4: inverse.  From every reachable state, a +1 turn followed by the -1
\* turn of the same axis and layer (and -1 followed by +1) gives back the
\* same positions and colors.
C4_Inverse ==
  \A axis \in Axes, layer \in Layers, d \in Directions :
    LET r1 == After(heap, cubeState, axis, layer, d)
        r2 == After(r1.heap, r1.newState, axis, layer, -d)
    IN  Deref(r2.heap, r2.newState) = View

\* C5: four-turn closure.  From every reachable state, the same Move applied
\* four times gives back the same positions and colors.
C5_FourTurns ==
  \A axis \in Axes, layer \in Layers, d \in Directions :
    LET r1 == After(heap, cubeState, axis, layer, d)
        r2 == After(r1.heap, r1.newState, axis, layer, d)
        r3 == After(r2.heap, r2.newState, axis, layer, d)
        r4 == After(r3.heap, r3.newState, axis, layer, d)
    IN  Deref(r4.heap, r4.newState) = View

C7_Frame ==
  lastMove # NoMove =>
    /\ \A i \in (1..Len(prevView)) \ LastSelected : View[i] = prevView[i]
    /\ lastMove.layer[1] # 0 =>
         Cardinality((1..Len(prevView)) \ LastSelected) = 17

\* C7 witness: an outer-layer turn has been applied to a cube that was
\* already turned about another axis.
C7_Witness ==
  /\ nMoves >= 2
  /\ lastMove.layer[1] = 1
  /\ prevView # initializeCubeState
  /\ View # prevView

\* C8: replacement, not mutation.  The array the caller passed to the last
\* call still shows the positions and colors it showed before the call.
C8_NoMutation ==
  lastMove # NoMove => Deref(heap, prevState) = prevView

\* C9: malformed layer.  When the last Move selected a number of pieces
\* other than 9, a MalformedLayerError was signalled and the state is as it
\* was before the call.
C9_MalformedLayer ==
  (lastMove # NoMove /\ Cardinality(LastSelected) # 9) =>
    /\ thrown = "MalformedLayerError"
    /\ View = prevView

\* C10: gate correctness.  A click received while the mapper is Rotating is
\* ignored: it records no GestureSelection, requests no pose callback,
\* changes no mapper state, emits no Move and leaves the CubeState as it is.
C10_GateIgnoresPick ==
  [][(rotationInProgress /\ \E i \in ClickSlots : Click(i)) =>
       UNCHANGED <<isGrabbing, grabbedFace, lastControllerPosition,
                   rotationInProgress, rafQueue, heap, cubeState, nMoves>>]_vars


\* C11: serialized Moves.  In the controller-drag mapper, while the timer of
\* a commit is pending no step (click, pose callback, release, trigger
\* event, frame) changes the CubeState or commits another Move, and at most
\* one commit timer is pending at any time.
C11_SerializedMoves ==
  /\ [](timers <= 1)
  /\ [][timers > 0 => UNCHANGED <<heap, cubeState, nMoves>>]_vars

\* C11 witness: a second Move is in flight (its timer pending) while a
\* selection is still held, the first having completed before it.
C11_Witness ==
  /\ nMoves = 2
  /\ timers = 1
  /\ rotationInProgress
  /\ isGrabbing
  /\ grabbedFace # Null


\* C12: one Move per grab.  Between a pick and the next release or cancel
\* the controller-drag mapper commits at most one Move, however far the
\* grip keeps moving after the first commit.
C12_OneMovePerGrab ==
  grabMoves <= 1


\* C13: gate release.  Whenever the controller-drag mapper is Rotating
\* (rotationInProgress set by a commit) it later is not Rotating, given that
\* the timer the commit scheduled eventually fires.
C13_GateRelease ==
  rotationInProgress ~> ~rotationInProgress

\* C13 witness: the gate has been entered twice and left twice.
C13_Witness ==
  /\ nMoves = 2
  /\ timers = 0
  /\ ~rotationInProgress


\* C14: selection discarded on commit.  When the gate is released after a
\* commit and no pick has occurred since that commit, the controller-drag
\* mapper is Idle: it holds no grabbed piece/face and is not grabbing.
C14_SelectionDiscarded ==
  (grabMoves >= 1 /\ ~rotationInProgress) =>
    (grabbedFace = Null /\ ~isGrabbing)


\* C15: cancel is a no-op on the cube.  A release or cancel that arrives
\* while a selection is held and before the threshold was reached (drag
\* mapper: pointer-up or trigger "touched" with no Move committed in the
\* grab and the gate open; snap mapper: release with the controller turned
\* by less than pi/4) emits no Move, leaves the CubeState unchanged and
\* leaves the mapper Idle with no GestureSelection.
C15_CancelNoOp ==
  [][(/\ grabbedFace # Null
      /\ \/ /\ Len(cubeState) = Len(initialState)
            /\ ~rotationInProgress
            /\ grabMoves = 0
            /\ PointerUp \/ TriggerEvent("touched")
         \/ /\ Len(cubeState) = Len(initializeCubeState_vr)
            /\ handleRelease(0))
       => /\ UNCHANGED <<heap, cubeState, nMoves, lastMove>>
          /\ grabbedFace' = Null
          /\ ~isGrabbing'
          /\ lastControllerPosition' = Null
          /\ ~rotationInProgress']_vars

\* C15 witness: after an earlier Move the drag mapper holds a new selection
\* with no Move committed in this grab and the gate open, so that the next
\* release is a cancel.  (The state after a cancel from the initial state is
\* the initial state itself.)
C15_Witness ==
  /\ Len(cubeState) = Len(initialState)
  /\ nMoves >= 1
  /\ grabbedFace # Null
  /\ isGrabbing
  /\ grabMoves = 0
  /\ ~rotationInProgress


\* C16: solved cube.  initializeCubeState() of the engine and of the snap
\* component return one piece for each lattice point (x,y,z) of {0,1,2}^3
\* except (1,1,1), at (x-1, y-1, z-1), with right colored iff x = 2, left iff
\* x = 0, top iff y = 2, bottom iff y = 0, front iff z = 2, back iff z = 0,
\* each with its canonical color, and every other face carrying the filler
\* (black in the engine, no color in the snap component); the cube the
\* engine starts from is that array.
C16_SolvedCube ==
  /\ SolvedEngine
  /\ SolvedSnap
  /\ nMoves = 0 => IsSolvedCube(View, COLORS.black)

\* C16 witness: the freshly initialized cube, whose last piece is the corner
\* at (1,1,1) with right, top and front colored.
C16_Witness ==
  /\ nMoves = 0
  /\ View = initializeCubeState
  /\ View[Len(View)].position = <<Exact(1), Exact(1), Exact(1)>>
  /\ {f \in Faces : View[Len(View)].colors[f] \in CanonicalColors} = {"right", "top", "front"}


\* C17: color cycles.  For every piece the last Move selected, a positive
\* turn moved its colors along front->top->back->bottom->front (axis X),
\* front->right->back->left->front (axis Y), top->right->bottom->left->top
\* (axis Z), a negative turn along the reversed cycle, and the two faces on
\* the rotation axis kept their colors.
C17_ColorCycles ==
  lastMove # NoMove =>
    \A i \in LastSelected :
      View[i].colors = CycledColors(prevView[i].colors, lastMove.axis, lastMove.direction)


\* C18: detectFace.  For every position of {-1,0,1}^3 other than (0,0,0),
\* detectFace returns the label of the axis with the largest absolute
\* coordinate, ties resolved X before Y before Z, the sign of that coordinate
\* picking right/left, top/bottom or front/back; the face recorded by a grab
\* of a piece at such a position is that label.
C18_DetectFace ==
  /\ \A position \in LatticePositions : detectFace(position) = DominantFace(position)
  /\ (grabbedFace # Null /\ grabbedFace[1].piece.position \in LatticePositions) =>
       grabbedFace[1].face = DominantFace(grabbedFace[1].piece.position)

\* C18 witness: after a Move, a piece at (0,-1,1), where Y and Z tie and the
\* Y coordinate is negative, has been grabbed and its face detected.
C18_Witness ==
  /\ nMoves >= 1
  /\ grabbedFace # Null
  /\ grabbedFace[1].piece.position = <<Exact(0), Exact(-1), Exact(1)>>
  /\ grabbedFace[1].face = "bottom"


\* C19: unrecognized face label.  A Move derived from a selection with face
\* right|left is about X, top|bottom about Y, front|back about Z, and a
\* selection whose label is none of the six is not resolved to an axis: no
\* Move is ever emitted or applied from it.
C19_UnrecognizedFace ==
  lastGrab # Null =>
    /\ lastGrab[1].face \in Faces
    /\ lastMove.axis = FaceAxisOf(lastGrab[1].face)


\* C20 as stated: layer size.  In every reachable CubeState, for every axis
\* and every layer in {-1,0,1}, exactly 9 pieces have their coordinate along
\* the axis within the selection epsilon of the layer.
C20_LayerSize ==
  \A axis \in Axes, layer \in Layers : LayerSize(axis, layer) = 9

\* C20 amended: in every reachable CubeState, for every axis, each outer
\* layer (-1 and 1) has exactly 9 pieces within the selection epsilon and
\* the middle layer (0) exactly 8.
C20_LayerSizeAmended ==
  \A axis \in Axes, layer \in Layers :
    LayerSize(axis, layer) = IF layer = 0 THEN 8 ELSE 9

\* C20 witness: after a middle-layer turn following other turns, some piece
\* is off its lattice point by a rounding error, so that the epsilon counts.
C20_Witness ==
  /\ nMoves >= 2
  /\ lastMove.layer = Exact(0)
  /\ \E i \in 1..Len(View) : \E a \in Axes : View[i].position[a + 1][2] # 0


\* C21: all-or-nothing commit.  A step of the controller-drag mapper that
\* commits a Move replaces each piece of the selected layer, in its own array
\* slot, by its own rotated image and leaves every other slot as it was, and
\* afterwards no two pieces share a position; a step that commits no Move
\* leaves the CubeState unchanged.
C21_AllOrNothing ==
  [][IF nMoves' = nMoves
       THEN UNCHANGED <<heap, cubeState>>
       ELSE /\ \A i \in 1..Len(View) :
                 View'[i] =
                   IF View[i].position[lastMove'.axis + 1] = lastMove'.layer
                     THEN commitPiece(View[i], lastMove'.axis, lastMove'.direction)
                     ELSE View[i]
            /\ \A i, j \in 1..Len(View) :
                 i # j => View'[i].position # View'[j].position]_vars


\* C22: the solved state the controller-drag component builds at
\* initialization has exactly 26 pieces and none at the fully interior
\* position (0,0,0).
C22_NoInteriorPiece ==
  nMoves = 0 =>
    /\ Len(View) = 26
    /\ \A i \in 1..Len(View) : View[i].position # <<Exact(0), Exact(0), Exact(0)>>


\* C23: continuous-gesture threshold.  Whenever the controller-drag mapper
\* commits the Move getLegalMove returned, the movement of the grip since
\* the last recorded position has, along the dominant of the two axes
\* orthogonal to the grabbed face's axis, a component that exceeds the
\* threshold, and the Move's direction is the sign of that component.
C23_DominantAxisThreshold ==
  [][nMoves' # nMoves =>
       LET movement == [a \in Axes |->
                          lastControllerPosition'[a + 1] - lastControllerPosition[a + 1]]
           orthogonal == Axes \ {FaceAxisOf(grabbedFace[1].face)}
       IN  \E a \in orthogonal :
             /\ \A b \in orthogonal : Abs(movement[a]) >= Abs(movement[b])
             /\ Abs(movement[a]) > threshold
             /\ lastMove'.direction = Sign(movement[a])]_vars


\* C24: direction-sensitive colors.  For every piece of a reachable
\* CubeState of the controller-drag mapper and every axis, the color
\* permutation a commit of direction -1 applies undoes the one a commit of
\* direction +1 applies: the piece's image under +1 and then -1 has the
\* piece's colors.
C24_DirectionSensitiveColors ==
  \A i \in 1..Len(View) : \A axis \in Axes :
    commitPiece(commitPiece(View[i], axis, 1), axis, -1).colors = View[i].colors


\* C25: selection destroyed on release.  Once the controller-drag mapper
\* holds no GestureSelection and is not grabbing (the state a release or
\* cancel leaves), it stays so until the next pick event (a click, or the
\* trigger returning to "default"): no other step, the pose callback of an
\* earlier pick included, records a selection or sets isGrabbing.
C25_SelectionDestroyed ==
  [][(/\ grabbedFace = Null
      /\ ~isGrabbing
      /\ ~(\E i \in ClickSlots : Click(i))
      /\ ~TriggerEvent("default"))
       => (grabbedFace' = Null /\ ~isGrabbing')]_vars


\* C26: exact lattice positions.  After any sequence of rotateFace calls,
\* every coordinate of every piece is exactly one of -1, 0, 1.
C26_ExactLattice ==
  \A i \in 1..Len(View) : \A a \in Axes :
    \E n \in Layers : View[i].position[a + 1] = Exact(n)


\* C27: middle layers are unreachable through detectFace picks.  In every
\* reachable state of the snap mapper and for each of its pieces, the Move
\* derived as axis = getFaceAxis(detectFace(position)), layer =
\* getLayerFromPosition(position, axis) has layer -1 or +1, never 0, and
\* selects exactly 9 pieces; the states considered are those reached and
\* those one and two further pick-and-release turns away from them.
C27_NoMiddleLayerPick ==
  /\ PicksOuterLayer(heap, cubeState)
  /\ \A i, j \in 1..Len(cubeState) :
       LET r1 == PickTurn(heap, cubeState, i)
           r2 == PickTurn(r1.heap, r1.newState, j)
       IN  /\ PicksOuterLayer(r1.heap, r1.newState)
           /\ PicksOuterLayer(r2.heap, r2.newState)


\* C28: the rotation-snap mapper only turns forwards.  Every Move it emits
\* has direction +1, and a release that emits a Move applies exactly one
\* quarter turn, one rotateFace call with direction +1, whatever the snapped
\* angle.
C28_ForwardQuarterTurns ==
  /\ [](lastMove # NoMove => lastMove.direction = 1)
  /\ [][nMoves' # nMoves =>
          /\ nMoves' = nMoves + 1
          /\ LET r == rotateFace(heap, cubeState, lastMove'.axis, lastMove'.layer, 1)
             IN  heap' = r.heap /\ cubeState' = r.newState]_vars

\* C28 witness: two Moves have been emitted, the last from a pick of a face
\* on the negative side of its axis, and it changed the cube.
C28_Witness ==
  /\ nMoves = 2
  /\ lastGrab # Null
  /\ lastGrab[1].face \in {"left", "bottom", "back"}
  /\ lastMove.direction = 1
  /\ View # prevView


\* C29: a second grab is ignored.  In the rotation-snap mapper a selection,
\* once recorded, stays the same piece and face until a release clears it,
\* whatever grabs arrive meanwhile, and the Move a release emits is derived
\* from that selection: the axis of its face and its piece's coordinate on
\* that axis.
C29_FirstGrabWins ==
  [][grabbedFace # Null =>
       /\ grabbedFace' = grabbedFace \/ grabbedFace' = Null
       /\ nMoves' # nMoves =>
            /\ grabbedFace' = Null
            /\ lastMove'.axis = FaceAxisOf(grabbedFace[1].face)
            /\ lastMove'.layer =
                 grabbedFace[1].piece.position[FaceAxisOf(grabbedFace[1].face) + 1]]_vars

\* C29 witness: after a Move a selection is held while other pieces of the
\* cube would be detected with another face, so that a second grab would
\* record a different selection.
C29_Witness ==
  /\ nMoves >= 1
  /\ grabbedFace # Null
  /\ \E i \in 1..Len(View) : detectFace(View[i].position) # grabbedFace[1].face


=============================================================================
